---- MODULE Spec2Model ----
(***************************************************************************)
(* Model of raftwal/storage.go: the mmap-backed Raft write-ahead log       *)
(* (metaFile, entryFile, entryLog, DiskStorage and its discard worker).    *)
(*                                                                         *)
(* The index region of every entry file is modelled byte by byte, because  *)
(* AddEntries and getEntry address it differently.  A uint64 read from the  *)
(* file is decoded exactly while it is below 2^31 and is represented by     *)
(* Huge above that; the code only compares such values with small ones or  *)
(* uses them as slice bounds, where every value >= 2^31 behaves alike.      *)
(***************************************************************************)
EXTENDS Integers, Sequences, FiniteSets, TLC

\* ------------------------------------------------------------------------
\* Constants of storage.go (lines 105-128).  maxNumEntries is 30000 in the
\* source and scaled down here so that a file fills up and rotates.
maxNumEntries == 2
entrySize == 32
entryFileOffset == 1048576
entryFileSize == 4 * entryFileOffset
entryFileMaxSize == 1073741824
hardStateOffset == 512
snapshotOffset == 1024
metaFileSize == 4096
chanCap == 16

\* Bounds of the model.
MaxAppends == 4      \* entries appended plus meta page writes over a run
MaxBatch == 2        \* entries in one AddEntries call
MaxMetaWrites == 2   \* meta page writes over a run

Huge == 2147483647
Byte == 0..255
Nil == "nil"

\* Size of the index region of one entry file, in bytes.
IdxBytes == entrySize * maxNumEntries

\* ------------------------------------------------------------------------
\* encoding/binary.BigEndian
PutUint64(n) ==
    IF n >= Huge THEN <<127, 255, 255, 255, 255, 255, 255, 255>>
    ELSE <<0, 0, 0, 0, n \div 16777216, (n \div 65536) % 256,
           (n \div 256) % 256, n % 256>>

Uint64(b) ==
    IF b[1] = 0 /\ b[2] = 0 /\ b[3] = 0 /\ b[4] = 0 /\ b[5] < 128
    THEN b[5] * 16777216 + b[6] * 65536 + b[7] * 256 + b[8]
    ELSE Huge

\* entry.Bytes: term, index, data offset, type, 8 bytes each.
Bytes(e) ==
    PutUint64(e.Term) \o PutUint64(e.Index) \o PutUint64(e.DataOffset)
        \o PutUint64(e.Type)

\* entryFromBytes on a 32 byte slice.
entryFromBytes(b) ==
    [Term       |-> Uint64(SubSeq(b, 1, 8)),
     Index      |-> Uint64(SubSeq(b, 9, 16)),
     DataOffset |-> Uint64(SubSeq(b, 17, 24)),
     Type       |-> Uint64(SubSeq(b, 25, 32))]

\* ------------------------------------------------------------------------
\* A file's bytes: idx is the index region [0, IdxBytes), heap the bytes
\* from entryFileOffset on; every other byte of the file is zero.
ZeroIdx == [i \in 0..(IdxBytes - 1) |-> 0]
EmptyFile == [idx |-> ZeroIdx, heap |-> <<>>]

ByteAt(f, off) ==
    IF off < IdxBytes THEN f.idx[off]
    ELSE IF off >= entryFileOffset /\ off - entryFileOffset < Len(f.heap)
         THEN f.heap[off - entryFileOffset + 1]
         ELSE 0

\* copy(dst[off:], b) into the index region.
CopyIdx(f, off, b) ==
    [f EXCEPT !.idx = [i \in 0..(IdxBytes - 1) |->
        IF i >= off /\ i < off + Len(b) THEN b[i - off + 1] ELSE f.idx[i]]]

\* copy(dst, b) into the payload heap at heap-relative offset rel.
CopyHeap(f, rel, b) ==
    LET n == IF Len(f.heap) > rel + Len(b) THEN Len(f.heap) ELSE rel + Len(b)
    IN  [f EXCEPT !.heap = [i \in 1..n |->
            IF i > rel /\ i <= rel + Len(b) THEN b[i - rel]
            ELSE IF i <= Len(f.heap) THEN f.heap[i] ELSE 0]]

\* ------------------------------------------------------------------------
\* State.
VARIABLES
    proc,      \* "down" (not started), "up" (Init returned), "dead" (panic/fatal)
    fault,     \* why the process died, "" while it has not
    disk,      \* entry files of the directory: path -> bytes
    el,        \* the entryLog object (DiskStorage.entries)
    meta,      \* the bytes of wal.meta (DiskStorage.meta)
    cache,     \* DiskStorage.cache: the value stored under snapshotKey
    chan,      \* indexRangeChan: the ranges buffered in it, and whether closed
    closer,    \* DiskStorage.Closer: "open", "signalled" or "done"
    wpc,       \* position of the processIndexRange goroutine
    ret,       \* the last operation called and what it returned
    hist,      \* every entry handed to AddEntries so far, in order
    nmeta,     \* number of meta page writes so far
    atClose,   \* what the store answered when it was last closed
    durDisk,   \* the bytes of the entry files that reached the device
    durMeta    \* the bytes of wal.meta that reached the device

vars == <<proc, fault, disk, el, meta, cache, chan, closer, wpc, ret, hist,
          nmeta, atClose, durDisk, durMeta>>

\* The device's copy of the files.
dur == <<durDisk, durMeta>>

\* File names: fmt.Sprintf("%d.ent", n) has ent = TRUE, fmt.Sprintf("%d", n)
\* has ent = FALSE.
Path(n, hasSuffix) == [num |-> n, ent |-> hasSuffix]

\* Results of an operation.
Ok(v) == [kind |-> "ok", val |-> v]
Err(e) == [kind |-> "err", val |-> e]
Panic(m) == [kind |-> "panic", val |-> m]

\* ------------------------------------------------------------------------
\* sort.Search(n, f): binary search for the smallest i in [0, n) with f(i).
\* f is given as the set of positions (0-based) where it is true.
RECURSIVE SearchLoop(_, _, _)
SearchLoop(i, j, T) ==
    IF i < j
    THEN LET h == (i + j) \div 2
         IN  IF h \notin T THEN SearchLoop(h + 1, j, T) ELSE SearchLoop(i, h, T)
    ELSE i

Search(n, T) == SearchLoop(0, n, T)

\* ------------------------------------------------------------------------
\* entryFile and entryLog helpers.  l is an entryLog, d the directory's files.

\* entryFile.mmap is <<>> when the field is nil and <<path>> when it is a
\* view of the bytes of the file at path.
\* len(ef.mmap): the mapping taken from buf.BytesFromStart() of the 4MB
\* buffer; 0 for an entryFile that rotate appended.
MmapLen(ef) == IF ef.mmap = <<>> THEN 0 ELSE entryFileSize

\* Byte offset of slot idx as getEntry computes it.
getEntryOffset(idx) == idx * entrySize

\* Byte offset at which AddEntries writes the record of slot entryIndex:
\* l.current.ReadAt(entrySize, l.entryIndex).
AddEntriesOffset(entryIndex) == entryIndex

\* entryFile.getEntry(idx): ef.mmap[offset : offset+entrySize].
getEntry(ef, d, idx) ==
    LET offset == getEntryOffset(idx)
    IN  IF idx >= Huge \div entrySize \/ offset + entrySize > MmapLen(ef)
        THEN Panic("slice bounds out of range")
        ELSE Ok(entryFromBytes(
                 [i \in 1..entrySize |-> ByteAt(d[ef.mmap[1]], offset + i - 1)]))

lastFile(l) == l.files[Len(l.files)]

\* entryLog.getEntry(n): the nth entry of the current file, read through
\* lastFile().mmap.
elGetEntry(l, d, n) ==
    IF n >= maxNumEntries THEN Err("more than maxNumEntries")
    ELSE getEntry(lastFile(l), d, n)

\* entryLog.firstEmpty
RECURSIVE firstEmptyFrom(_, _, _)
firstEmptyFrom(l, d, i) ==
    IF i >= maxNumEntries THEN Ok(maxNumEntries)
    ELSE LET r == elGetEntry(l, d, i)
         IN  IF r.kind # "ok" THEN r
             ELSE IF r.val.Index = 0 THEN Ok(i)
             ELSE firstEmptyFrom(l, d, i + 1)

firstEmpty(l, d) == firstEmptyFrom(l, d, 0)

\* entryLog.zeroOut(from) on the bytes of the current file.
zeroOut(f, from) ==
    IF from >= maxNumEntries THEN f
    ELSE [f EXCEPT !.idx = [i \in 0..(IdxBytes - 1) |->
              IF i >= from * entrySize THEN 0 ELSE f.idx[i]]]

\* entryLog.rotate(firstIndex): a new current buffer on the file named
\* "<firstIndex>", and an entryFile for it whose mmap field is left unset.
rotate(l, d, firstIndex) ==
    LET path == Path(firstIndex, FALSE)
        f0 == IF path \in DOMAIN d THEN d[path] ELSE EmptyFile
        d1 == [p \in (DOMAIN d) \cup {path} |->
                  IF p = path THEN zeroOut(f0, 0) ELSE d[p]]
    IN  [el |-> [l EXCEPT !.current = [path |-> path, off |-> entryFileOffset],
                          !.entryIndex = 0,
                          !.files = Append(@, [path |-> path,
                                               firstIndex |-> firstIndex,
                                               mmap |-> <<>>])],
         disk |-> d1]

\* entryLog.numEntries
numEntries(l) ==
    IF Len(l.files) = 0 THEN 0
    ELSE (Len(l.files) - 1) * maxNumEntries + l.entryIndex

\* entryLog.FirstIndex, entryLog.LastIndex
elFirstIndex(l) == IF Len(l.files) = 0 THEN 0 ELSE l.files[1].firstIndex
elLastIndex(l) == l.lastIndex

\* z.Buffer.SliceAllocateOffset(n) on the current buffer: n bytes at the
\* write offset, which then moves up by n.
SliceAllocateOffset(cur, n) ==
    [offset |-> cur.off, cur |-> [cur EXCEPT !.off = @ + n]]

\* entryLog.AddEntries: one pass of its loop per entry of es.
RECURSIVE AddEntriesLoop(_, _, _)
AddEntriesLoop(l, d, es) ==
    IF es = <<>> THEN [el |-> l, disk |-> d]
    ELSE LET re == Head(es)
             r1 == IF l.entryIndex >= maxNumEntries
                   THEN rotate(l, d, re.Index)
                   ELSE [el |-> l, disk |-> d]
             l1 == r1.el
             d1 == r1.disk
             hasData == Len(re.Data) > 0
             al == SliceAllocateOffset(l1.current, Len(re.Data))
             e == [Term |-> re.Term, Index |-> re.Index, Type |-> re.Type,
                   DataOffset |-> IF hasData THEN al.offset ELSE 0]
             l2 == IF hasData THEN [l1 EXCEPT !.current = al.cur] ELSE l1
             d2 == IF hasData
                   THEN [d1 EXCEPT ![l1.current.path] =
                            CopyHeap(@, al.offset - entryFileOffset, re.Data)]
                   ELSE d1
             d3 == [d2 EXCEPT ![l2.current.path] =
                       CopyIdx(@, AddEntriesOffset(l2.entryIndex), Bytes(e))]
             l3 == [l2 EXCEPT !.entryIndex = @ + 1, !.lastIndex = e.Index]
         IN  AddEntriesLoop(l3, d3, Tail(es))

\* ------------------------------------------------------------------------
\* Reads.

\* Number of bytes of the varint encoding of x (sovRaft).
sov(x) ==
    IF x < 128 THEN 1 ELSE IF x < 16384 THEN 2 ELSE IF x < 2097152 THEN 3
    ELSE IF x < 268435456 THEN 4 ELSE 5

\* raftpb.Entry.Size of an entry whose Data is a non-nil slice.
Size(re) ==
    (1 + sov(re.Type)) + (1 + sov(re.Term)) + (1 + sov(re.Index))
        + (1 + sov(re.Data.len) + re.Data.len)

\* Longest payload whose bytes a returned entry carries; a longer slice is
\* described by its length alone.
MaxMat == 4

\* ef.mmap[from:to] as the Data of a returned entry.
MmapSlice(ef, d, from, to) ==
    [len |-> to - from,
     bytes |-> IF to - from <= MaxMat
               THEN [i \in 1..(to - from) |-> ByteAt(d[ef.mmap[1]], from + i - 1)]
               ELSE <<>>]

SliceOk(ef, from, to) == from <= to /\ to <= MmapLen(ef)

\* The raftpb.Entry built from index record e with Data = ef.mmap[from:to].
MkEntry(ef, d, e, from, to) ==
    [Index |-> e.Index, Term |-> e.Term, Type |-> e.Type,
     Data |-> MmapSlice(ef, d, from, to)]

\* Positions (0-based) of the files whose firstIndex >= x.
FilesFrom(l, x) == {i \in 0..(Len(l.files) - 1) : l.files[i + 1].firstIndex >= x}

\* entryLog.Term
elTerm(l, d, idx) ==
    LET fileIdx == Search(Len(l.files), FilesFrom(l, idx))
    IN  IF fileIdx >= Len(l.files) THEN Panic("index out of range")
        ELSE IF l.files[fileIdx + 1].firstIndex = idx
        THEN LET r == getEntry(l.files[fileIdx + 1], d, 0)
             IN  IF r.kind = "ok" THEN Ok(r.val.Term) ELSE r
        ELSE IF fileIdx = 0 THEN Panic("index out of range")
        ELSE LET ef == l.files[fileIdx]
                 r == getEntry(ef, d, idx - ef.firstIndex)
             IN  IF r.kind = "ok" THEN Ok(r.val.Term) ELSE r

\* The first block of entryLog.allEntries (lines 529-559): lo lies inside
\* the file before fileID.  Returns the entry it produces.
allEntriesHead(l, d, lo, fileID) ==
    IF fileID = 0 THEN Panic("Assert failed")
    ELSE LET ef == l.files[fileID]
             diff == lo - ef.firstIndex
             r == getEntry(ef, d, diff)
         IN  IF r.kind # "ok" THEN r
             ELSE IF r.val.Index # lo THEN Panic("Assert failed")
             ELSE IF r.val.DataOffset > MmapLen(ef)
             THEN Panic("slice bounds out of range")
             ELSE IF diff = 0
             THEN Ok(MkEntry(ef, d, r.val, r.val.DataOffset, MmapLen(ef)))
             ELSE LET nx == getEntry(ef, d, diff + 1)
                  IN  IF nx.kind # "ok" THEN nx
                      ELSE IF ~SliceOk(ef, r.val.DataOffset, nx.val.DataOffset)
                      THEN Panic("slice bounds out of range")
                      ELSE Ok(MkEntry(ef, d, r.val, r.val.DataOffset,
                                      nx.val.DataOffset))

\* A loop that appends the entry that crosses maxSize before it stops.
AtCapInclusive(es, re) == Append(es, re)

\* What the loop of entryLog.allEntries holds when "sz > maxSize" breaks it
\* (lines 602-606): the break comes before the append of re.
AtCap(es, re) == es

\* The loop of entryLog.allEntries (lines 565-608).
RECURSIVE allEntriesLoop(_, _, _, _, _, _, _, _)
allEntriesLoop(l, d, lo, hi, maxSize, fileID, es, sz) ==
    IF ~(lo < hi /\ fileID < Len(l.files)) THEN Ok(es)
    ELSE LET ef == l.files[fileID + 1]
         IN  IF lo >= ef.firstIndex /\ lo - ef.firstIndex = maxNumEntries
             THEN allEntriesLoop(l, d, lo, hi, maxSize, fileID + 1, es, sz)
             ELSE LET diff == IF lo >= ef.firstIndex THEN lo - ef.firstIndex
                              ELSE Huge
                  IN  IF diff > l.lastIndex THEN Ok(es)
                      ELSE LET r == getEntry(ef, d, diff)
                               end == l.current.off - entryFileOffset
                           IN  IF r.kind # "ok" THEN r
                               ELSE IF ~SliceOk(ef, r.val.DataOffset, end)
                               THEN Panic("slice bounds out of range")
                               ELSE LET nx == getEntry(ef, d, diff + 1)
                                        to == IF diff # 0 THEN nx.val.DataOffset
                                              ELSE end
                                    IN  IF diff # 0 /\ nx.kind # "ok" THEN nx
                                        ELSE IF ~SliceOk(ef, r.val.DataOffset, to)
                                        THEN Panic("slice bounds out of range")
                                        ELSE LET re == MkEntry(ef, d, r.val,
                                                           r.val.DataOffset, to)
                                                 sz1 == sz + Size(re)
                                             IN  IF sz1 > maxSize THEN Ok(AtCap(es, re))
                                                 ELSE allEntriesLoop(l, d, lo + 1,
                                                        hi, maxSize, fileID,
                                                        Append(es, re), sz1)

\* entryLog.allEntries
allEntries(l, d, lo, hi, maxSize) ==
    IF lo < elFirstIndex(l) THEN Err("low less than firstIndex")
    ELSE LET fileID == Search(Len(l.files), FilesFrom(l, lo))
         IN  IF fileID >= Len(l.files) THEN Panic("index out of range")
             ELSE IF l.files[fileID + 1].firstIndex # lo
             THEN LET h == allEntriesHead(l, d, lo, fileID)
                  IN  IF h.kind # "ok" THEN h
                      ELSE IF Size(h.val) > maxSize THEN Ok(<<h.val>>)
                      ELSE allEntriesLoop(l, d, lo + 1, hi, maxSize, fileID - 1,
                                          <<h.val>>, Size(h.val))
             ELSE allEntriesLoop(l, d, lo, hi, maxSize, fileID, <<>>, 0)

\* ------------------------------------------------------------------------
\* The meta page.  A length-prefixed record at a fixed offset is modelled as
\* its length field and the bytes that follow it (area); bytes of an older,
\* longer payload stay in the area when a shorter one is written over them.

\* Varint encoding of a value below 16384.
Varint(x) == IF x < 128 THEN <<x>> ELSE <<128 + (x % 128), x \div 128>>

\* raftpb.HardState.Marshal: term, vote, commit, each always emitted.
MarshalHardState(hs) ==
    <<8>> \o Varint(hs.term) \o <<16>> \o Varint(hs.vote)
          \o <<24>> \o Varint(hs.commit)

\* raftpb.Snapshot.Marshal: data (when present), then the metadata message
\* with an empty ConfState, the index and the term.
MarshalSnapshot(sn) ==
    LET md == <<10, 0, 16>> \o Varint(sn.index) \o <<24>> \o Varint(sn.term)
    IN  (IF Len(sn.data) > 0 THEN <<10, Len(sn.data)>> \o sn.data ELSE <<>>)
            \o <<18, Len(md)>> \o md

EmptyHardState == [term |-> 0, vote |-> 0, commit |-> 0]
EmptySnapshot == [index |-> 0, term |-> 0, data |-> <<>>]

\* raft.IsEmptyHardState, raft.IsEmptySnap
IsEmptyHardState(hs) == hs = EmptyHardState
IsEmptySnap(sn) == sn.index = 0

\* The hard states and snapshots a caller passes in.
HardStates == [term : 1..2, vote : {1}, commit : {1, 200}]
Snapshots == [index : 1..2, term : {1}, data : {<<>>, <<7>>}]

EmptyRecord == [len |-> 0, area |-> <<>>]
ZeroMeta == [raftId |-> 0, hs |-> EmptyRecord, snap |-> EmptyRecord]

\* Copy the first k bytes of b over the area of a record.
CopyArea(rec, b, k) ==
    LET n == IF Len(rec.area) > k THEN Len(rec.area) ELSE k
    IN  [rec EXCEPT !.area = [i \in 1..n |-> IF i <= k THEN b[i] ELSE rec.area[i]]]

\* z.Buffer.WriteSliceAt(b, offset): the payload, then the length.
WriteSliceAt(rec, b) == [CopyArea(rec, b, Len(b)) EXCEPT !.len = Len(b)]

\* z.Buffer.Slice(offset): the bytes the length field covers.
Slice(rec) == SubSeq(rec.area, 1, rec.len)

\* Unmarshal: the value whose encoding the bytes are, or an error.
UnmarshalHardState(b) ==
    IF \E hs \in HardStates : MarshalHardState(hs) = b
    THEN Ok(CHOOSE hs \in HardStates : MarshalHardState(hs) = b)
    ELSE Err("cannot parse hardState")

UnmarshalSnapshot(b) ==
    IF \E sn \in Snapshots : MarshalSnapshot(sn) = b
    THEN Ok(CHOOSE sn \in Snapshots : MarshalSnapshot(sn) = b)
    ELSE Err("cannot parse snapshot")

\* A StoreHardState that writes the empty hard state like any other.
StoreHardStateAlways(m, hs) ==
    [m EXCEPT !.hs = WriteSliceAt(@, MarshalHardState(hs))]

\* metaFile.StoreHardState
StoreHardState(m, hs) ==
    IF IsEmptyHardState(hs) THEN m
    ELSE [m EXCEPT !.hs = WriteSliceAt(@, MarshalHardState(hs))]

\* metaFile.HardState
metaHardState(m) ==
    IF m.hs.len = 0 THEN Ok(EmptyHardState)
    ELSE UnmarshalHardState(Slice(m.hs))

\* metaFile.StoreSnapshot
StoreSnapshot(m, sn) ==
    IF IsEmptySnap(sn) THEN m
    ELSE [m EXCEPT !.snap = WriteSliceAt(@, MarshalSnapshot(sn))]

\* metaFile.Snapshot
metaSnapshot(m) ==
    IF m.snap.len = 0 THEN Ok(EmptySnapshot)
    ELSE UnmarshalSnapshot(Slice(m.snap))

\* metaFile.StoreRaftId, metaFile.RaftId
StoreRaftId(m, id) == [m EXCEPT !.raftId = id]
RaftId(m) == m.raftId

\* ------------------------------------------------------------------------
\* DiskStorage.

\* The badger handle DiskStorage.db: Init never assigns it.
db == Nil

NoLog == [files |-> <<>>, current |-> [path |-> Path(0, FALSE), off |-> 0],
          entryIndex |-> 0, lastIndex |-> 0]
NoRet == [op |-> "none", arg |-> <<>>, res |-> Ok(<<>>)]
OpenChan == [buf |-> <<>>, closed |-> FALSE]

\* getEntryFiles: the files of the directory whose name ends in ".ent".
getEntryFiles(d) == {p \in DOMAIN d : p.ent}

\* The file id openEntryLog parses when entry files exist:
\* strconv.ParseUint(strings.Split(".ent", path)[0], 10, 32) with path = "",
\* that is ParseUint(".").
openEntryLogFid == Err("invalid syntax")

\* openEntryLog(dir)
openEntryLog(d) ==
    IF getEntryFiles(d) = {}
    THEN LET path == Path(1, TRUE)
         IN  Ok([el |-> [files |-> <<[path |-> path, firstIndex |-> 0,
                                      mmap |-> <<path>>]>>,
                         current |-> [path |-> path, off |-> entryFileOffset],
                         entryIndex |-> 0, lastIndex |-> 0],
                 disk |-> [p \in (DOMAIN d) \cup {path} |->
                              IF p = path THEN zeroOut(EmptyFile, 0) ELSE d[p]]])
    ELSE openEntryLogFid

\* DiskStorage.Snapshot
Snapshot(c, m) == IF ~IsEmptySnap(c) THEN Ok(c) ELSE metaSnapshot(m)

\* DiskStorage.FirstIndex
FirstIndex(c, m, l) ==
    LET sn == Snapshot(c, m)
    IN  IF sn.kind = "ok" /\ ~IsEmptySnap(sn.val) THEN sn.val.index + 1
        ELSE elFirstIndex(l)

\* DiskStorage.LastIndex, DiskStorage.Term, DiskStorage.NumEntries
LastIndex(l) == elLastIndex(l)
Term(l, d, i) == elTerm(l, d, i)
NumEntries(l) == numEntries(l)

\* DiskStorage.allEntries: reads through the badger handle.
dsAllEntries(lo, hi, maxSize) ==
    IF db = Nil THEN Panic("nil pointer dereference") ELSE Ok(<<>>)

\* DiskStorage.Entries
Entries(l, lo, hi, maxSize) ==
    IF lo < elFirstIndex(l) THEN Err("ErrCompacted")
    ELSE IF hi > elLastIndex(l) + 1 THEN Err("ErrUnavailable")
    ELSE dsAllEntries(lo, hi, maxSize)

\* uint64 subtraction first - 1 in Init: wraps to 2^64-1 when first = 0.
FirstMinusOne(first) == IF first = 0 THEN Huge ELSE first - 1

\* ------------------------------------------------------------------------
\* Inputs.
MaxIndex == MaxAppends + 1
RaftIdIn == 7
EntryShapes ==
    { [Term |-> 1, Type |-> 0, Data |-> <<>>],
      [Term |-> 2, Type |-> 1, Data |-> <<97, 98>>] }
MaxSizes == {0, 12, Huge}
MaxSpan == 1         \* hi - lo of the range reads the driver issues

\* Batches of 1..MaxBatch entries with consecutive indices from start.
Batches(start) ==
    UNION { { [i \in 1..n |-> [Index |-> start + i - 1, Term |-> sh[i].Term,
                               Type |-> sh[i].Type, Data |-> sh[i].Data]] :
              sh \in [1..n -> EntryShapes] } : n \in 1..MaxBatch }

\* ------------------------------------------------------------------------
\* Initial state: an empty directory and no process.
Init ==
    /\ proc = "down"
    /\ fault = ""
    /\ disk = <<>>
    /\ el = NoLog
    /\ meta = ZeroMeta
    /\ cache = EmptySnapshot
    /\ chan = OpenChan
    /\ closer = "open"
    /\ wpc = "none"
    /\ ret = NoRet
    /\ hist = <<>>
    /\ nmeta = 0
    /\ atClose = <<>>
    /\ durDisk = <<>>
    /\ durMeta = ZeroMeta

\* The process ends in a panic or a fatal log call: the goroutines are gone,
\* the files keep every byte written to the mappings.
Dies(why) ==
    /\ proc' = "dead"
    /\ fault' = why
    /\ el' = NoLog
    /\ cache' = EmptySnapshot
    /\ chan' = OpenChan
    /\ closer' = "open"
    /\ wpc' = "none"

\* Init(dir, id, gid), on an empty directory or on one left by an earlier
\* process.
DiskStorageInit ==
    /\ UNCHANGED dur
    /\ proc \in {"down", "dead"}
    /\ LET o == openEntryLog(disk)
       IN  IF o.kind = "ok"
           THEN LET m1 == IF RaftId(meta) # RaftIdIn \/ RaftId(meta) = 0
                          THEN StoreRaftId(meta, RaftIdIn) ELSE meta
                    sn == metaSnapshot(m1)
                    first == FirstIndex(EmptySnapshot, m1, o.val.el)
                IN  IF sn.kind # "ok"
                    THEN /\ Dies("fatal")
                         /\ disk' = o.val.disk
                         /\ meta' = m1
                         /\ ret' = [op |-> "Init", arg |-> <<proc, DOMAIN disk # {}>>,
                                    res |-> Panic("fatal")]
                    ELSE /\ proc' = "up"
                         /\ fault' = ""
                         /\ el' = o.val.el
                         /\ disk' = o.val.disk
                         /\ meta' = m1
                         /\ cache' = EmptySnapshot
                         /\ chan' = [buf |-> IF IsEmptySnap(sn.val)
                                             THEN <<[from |-> 0,
                                                     until |-> FirstMinusOne(first)]>>
                                             ELSE <<>>,
                                     closed |-> FALSE]
                         /\ closer' = "open"
                         /\ wpc' = "loop"
                         /\ ret' = [op |-> "Init", arg |-> <<proc, DOMAIN disk # {}>>, res |-> Ok(<<>>)]
           ELSE /\ Dies("fatal")
                /\ ret' = [op |-> "Init", arg |-> <<proc, DOMAIN disk # {}>>, res |-> Panic("fatal")]
                /\ UNCHANGED <<disk, meta>>
    /\ UNCHANGED <<hist, nmeta, atClose>>

\* The driver may call the store: Init has returned and close was not asked.
Ready == proc = "up" /\ closer = "open"

\* entryLog.AddEntries(es)
AddEntries ==
    /\ UNCHANGED dur
    /\ Ready
    /\ \E start \in 1..MaxIndex :
         /\ start <= el.lastIndex + 1
         /\ \E es \in Batches(start) :
              /\ Len(hist) + Len(es) + nmeta <= MaxAppends
              /\ LET r == AddEntriesLoop(el, disk, es)
                 IN  /\ el' = r.el
                     /\ disk' = r.disk
              /\ hist' = hist \o es
              /\ ret' = [op |-> "AddEntries", arg |-> es, res |-> Ok(<<>>)]
    /\ UNCHANGED <<proc, fault, meta, cache, chan, closer, wpc, nmeta, atClose>>

\* A read whose result is res: recorded when it returns, fatal to the
\* process when it panics.
Returns(op, arg, res) ==
    /\ ret' = [op |-> op, arg |-> arg, res |-> res]
    /\ IF res.kind = "panic"
       THEN Dies("panic")
       ELSE UNCHANGED <<proc, fault, el, cache, chan, closer, wpc>>
    /\ UNCHANGED <<disk, meta, hist, nmeta, atClose>>

\* DiskStorage.Term(i)
TermCall ==
    /\ UNCHANGED dur
    /\ Ready
    /\ \E i \in 0..MaxIndex : Returns("Term", <<i>>, Term(el, disk, i))

\* entryLog.allEntries(lo, hi, maxSize)
allEntriesCall ==
    /\ UNCHANGED dur
    /\ Ready
    /\ \E lo \in 0..MaxIndex, hi \in 1..(MaxIndex + 1), ms \in {Huge} :
         /\ lo < hi /\ hi <= lo + MaxSpan
         /\ Returns("allEntries", <<lo, hi, ms>>, allEntries(el, disk, lo, hi, ms))

\* DiskStorage.Entries(lo, hi, maxSize)
EntriesCall ==
    /\ UNCHANGED dur
    /\ Ready
    /\ \E lo \in 0..MaxIndex, hi \in 1..(MaxIndex + 1), ms \in {Huge} :
         /\ lo < hi /\ hi <= lo + MaxSpan
         /\ Returns("Entries", <<lo, hi, ms>>, Entries(el, lo, hi, ms))

\* badger.DB.NewWriteBatchAt, WriteBatch.Flush and DB.Sync on DiskStorage.db.
NewWriteBatchAt == IF db = Nil THEN Panic("nil pointer dereference") ELSE Ok(<<>>)
Flush == IF db = Nil THEN Panic("nil pointer dereference") ELSE Ok(<<>>)
dbSync == IF db = Nil THEN Panic("nil pointer dereference") ELSE Ok(<<>>)

\* DiskStorage.setSnapshot(batch, s): the meta page, then the cache.
setSnapshot(m, c, sn) ==
    IF IsEmptySnap(sn) THEN [meta |-> m, cache |-> c]
    ELSE [meta |-> StoreSnapshot(m, sn), cache |-> sn]

\* What a caller passes to Save.
SaveInputs ==
    { <<h, es, sn>> \in (HardStates \cup {EmptyHardState})
                          \X ({<<>>} \cup Batches(1))
                          \X (Snapshots \cup {EmptySnapshot}) :
        /\ h.commit # 200
        /\ Len(es) <= 1
        /\ sn.data = <<>> /\ sn.index <= 1 }

\* DiskStorage.Save(h, es, snap)
Save ==
    /\ UNCHANGED dur
    /\ Ready
    /\ \E in \in SaveInputs :
         LET h == in[1]
             es == in[2]
             sn == in[3]
             bt == NewWriteBatchAt
         IN  IF bt.kind = "panic"
             THEN /\ Dies("panic")
                  /\ ret' = [op |-> "Save", arg |-> in, res |-> bt]
                  /\ UNCHANGED <<disk, meta, hist, nmeta, atClose>>
             ELSE LET r == AddEntriesLoop(el, disk, es)
                      m1 == StoreHardState(meta, h)
                      s1 == setSnapshot(m1, cache, sn)
                  IN  /\ el' = r.el
                      /\ disk' = r.disk
                      /\ meta' = s1.meta
                      /\ cache' = s1.cache
                      /\ hist' = hist \o es
                      /\ ret' = [op |-> "Save", arg |-> in, res |-> Flush]
                      /\ UNCHANGED <<proc, fault, chan, closer, wpc, nmeta, atClose>>

\* DiskStorage.CreateSnapshot(i, cs, data): panic("not implemented").
CreateSnapshot ==
    /\ UNCHANGED dur
    /\ Ready
    /\ \E i \in 1..MaxIndex :
         /\ i <= el.lastIndex
         /\ Dies("panic")
         /\ ret' = [op |-> "CreateSnapshot", arg |-> <<i, Snapshot(cache, meta)>>,
                    res |-> Panic("not implemented")]
    /\ UNCHANGED <<disk, meta, hist, nmeta, atClose>>

\* DiskStorage.Sync
Sync ==
    /\ UNCHANGED dur
    /\ Ready
    /\ ret' = [op |-> "Sync", arg |-> <<>>, res |-> dbSync]
    /\ IF dbSync.kind = "panic"
       THEN Dies("panic")
       ELSE UNCHANGED <<proc, fault, el, cache, chan, closer, wpc>>
    /\ UNCHANGED <<disk, meta, hist, nmeta, atClose>>

\* metaFile.StoreHardState(hs) on DiskStorage.meta
StoreHardStateCall ==
    /\ UNCHANGED dur
    /\ Ready
    /\ nmeta < MaxMetaWrites /\ Len(hist) + nmeta < MaxAppends
    /\ \E hs \in HardStates \cup {EmptyHardState} :
         /\ meta' = StoreHardState(meta, hs)
         /\ ret' = [op |-> "StoreHardState", arg |-> <<hs, Slice(meta.hs)>>,
                    res |-> Ok(<<>>)]
    /\ nmeta' = nmeta + 1
    /\ UNCHANGED <<proc, fault, disk, el, cache, chan, closer, wpc, hist, atClose>>

\* metaFile.StoreSnapshot(snap) on DiskStorage.meta
StoreSnapshotCall ==
    /\ UNCHANGED dur
    /\ Ready
    /\ nmeta < MaxMetaWrites /\ Len(hist) + nmeta < MaxAppends
    /\ \E sn \in Snapshots \cup {EmptySnapshot} :
         /\ meta' = StoreSnapshot(meta, sn)
         /\ ret' = [op |-> "StoreSnapshot", arg |-> <<sn, Slice(meta.snap)>>,
                    res |-> Ok(<<>>)]
    /\ nmeta' = nmeta + 1
    /\ UNCHANGED <<proc, fault, disk, el, cache, chan, closer, wpc, hist, atClose>>

\* The process is killed inside the WriteSliceAt of StoreHardState, after k
\* bytes of the payload were copied and before the length was written.
KillInStoreHardState ==
    /\ UNCHANGED dur
    /\ Ready
    /\ nmeta < MaxMetaWrites /\ Len(hist) + nmeta < MaxAppends
    /\ \E hs \in HardStates :
         LET b == MarshalHardState(hs)
         IN  \E k \in 0..Len(b) :
               /\ meta' = [meta EXCEPT !.hs = CopyArea(@, b, k)]
               /\ ret' = [op |-> "StoreHardState", arg |-> <<hs, Slice(meta.hs)>>,
                          res |-> Panic("killed")]
    /\ Dies("killed")
    /\ nmeta' = nmeta + 1
    /\ UNCHANGED <<disk, hist, atClose>>

\* The same inside the WriteSliceAt of StoreSnapshot.
KillInStoreSnapshot ==
    /\ UNCHANGED dur
    /\ Ready
    /\ nmeta < MaxMetaWrites /\ Len(hist) + nmeta < MaxAppends
    /\ \E sn \in Snapshots :
         LET b == MarshalSnapshot(sn)
         IN  \E k \in 0..Len(b) :
               /\ meta' = [meta EXCEPT !.snap = CopyArea(@, b, k)]
               /\ ret' = [op |-> "StoreSnapshot", arg |-> <<sn, Slice(meta.snap)>>,
                          res |-> Panic("killed")]
    /\ Dies("killed")
    /\ nmeta' = nmeta + 1
    /\ UNCHANGED <<disk, hist, atClose>>

\* ------------------------------------------------------------------------
\* The goroutine processIndexRange.  processSingleRange does nothing with
\* the range it is given.

\* case r := <-w.indexRangeChan
WorkerRecv ==
    /\ UNCHANGED dur
    /\ proc = "up" /\ wpc = "loop"
    /\ chan.buf # <<>>
    /\ chan' = [chan EXCEPT !.buf = Tail(@)]
    /\ UNCHANGED <<proc, fault, disk, el, meta, cache, closer, wpc, ret, hist, nmeta, atClose>>

\* A worker that closes the channel without having seen the close signal.
WorkerBreakUnsignalled ==
    /\ UNCHANGED dur
    /\ proc = "up" /\ wpc = "loop"
    /\ chan' = [chan EXCEPT !.closed = TRUE]
    /\ wpc' = "drain"
    /\ UNCHANGED <<proc, fault, disk, el, meta, cache, closer, ret, hist, nmeta, atClose>>

\* case <-w.Closer.HasBeenClosed(): break loop, then close(w.indexRangeChan)
WorkerBreak ==
    /\ UNCHANGED dur
    /\ proc = "up" /\ wpc = "loop"
    /\ closer = "signalled"
    /\ chan' = [chan EXCEPT !.closed = TRUE]
    /\ wpc' = "drain"
    /\ UNCHANGED <<proc, fault, disk, el, meta, cache, closer, ret, hist, nmeta, atClose>>

\* for r := range w.indexRangeChan
WorkerDrain ==
    /\ UNCHANGED dur
    /\ proc = "up" /\ wpc = "drain"
    /\ chan.buf # <<>>
    /\ chan' = [chan EXCEPT !.buf = Tail(@)]
    /\ UNCHANGED <<proc, fault, disk, el, meta, cache, closer, wpc, ret, hist, nmeta, atClose>>

\* A worker that leaves after close(w.indexRangeChan) without the range loop.
WorkerDoneNoDrain ==
    /\ UNCHANGED dur
    /\ proc = "up" /\ wpc = "drain"
    /\ wpc' = "done"
    /\ closer' = "done"
    /\ UNCHANGED <<proc, fault, disk, el, meta, cache, chan, ret, hist, nmeta, atClose>>

\* The range loop ends on the closed, empty channel; deferred Closer.Done().
WorkerDone ==
    /\ UNCHANGED dur
    /\ proc = "up" /\ wpc = "drain"
    /\ chan.buf = <<>>
    /\ wpc' = "done"
    /\ closer' = "done"
    /\ UNCHANGED <<proc, fault, disk, el, meta, cache, chan, ret, hist, nmeta, atClose>>

\* store.Closer.SignalAndWait(): the signal ...
CloseSignal ==
    /\ UNCHANGED dur
    /\ Ready
    /\ closer' = "signalled"
    /\ ret' = [op |-> "Close", arg |-> <<Len(chan.buf)>>, res |-> Ok("waiting")]
    /\ atClose' = <<FirstIndex(cache, meta, el), LastIndex(el),
                    metaHardState(meta), Snapshot(cache, meta)>>
    /\ UNCHANGED <<proc, fault, disk, el, meta, cache, chan, wpc, hist, nmeta>>

\* ... and the wait; the store is then dropped.
CloseWait ==
    /\ UNCHANGED dur
    /\ proc = "up" /\ closer = "done"
    /\ proc' = "down"
    /\ el' = NoLog
    /\ cache' = EmptySnapshot
    /\ chan' = OpenChan
    /\ closer' = "open"
    /\ wpc' = "none"
    /\ ret' = [op |-> "Close", arg |-> <<>>, res |-> Ok("closed")]
    /\ UNCHANGED <<fault, disk, meta, hist, nmeta, atClose>>

\* ------------------------------------------------------------------------
\* The storage device.  The mappings are shared file mappings: a write to
\* one is in the page cache at once and reaches the device when the kernel
\* writes the page back or the program flushes it (the program never does).

\* The device's copy of file p; a file never written back is all zero.
DurFile(p) == IF p \in DOMAIN durDisk THEN durDisk[p] ELSE EmptyFile

\* The kernel writes back the dirty pages of one entry file.
WritebackEntryFile ==
    /\ \E p \in DOMAIN disk :
         /\ DurFile(p) # disk[p]
         /\ durDisk' = [q \in (DOMAIN durDisk) \cup {p} |->
                           IF q = p THEN disk[p] ELSE durDisk[q]]
    /\ UNCHANGED <<proc, fault, disk, el, meta, cache, chan, closer, wpc, ret,
                   hist, nmeta, atClose, durMeta>>

\* The kernel writes back the meta page.
WritebackMeta ==
    /\ durMeta # meta
    /\ durMeta' = meta
    /\ UNCHANGED <<proc, fault, disk, el, meta, cache, chan, closer, wpc, ret,
                   hist, nmeta, atClose, durDisk>>

\* The machine loses power: the process is gone and the files hold what
\* had reached the device.
PowerLoss ==
    /\ proc = "up"
    /\ Dies("power loss")
    /\ disk' = [p \in DOMAIN disk |-> DurFile(p)]
    /\ meta' = durMeta
    /\ UNCHANGED <<ret, hist, nmeta, atClose, durDisk, durMeta>>

Next ==
    \/ DiskStorageInit
    \/ AddEntries
    \/ TermCall
    \/ allEntriesCall
    \/ EntriesCall
    \/ Save
    \/ CreateSnapshot
    \/ Sync
    \/ StoreHardStateCall
    \/ StoreSnapshotCall
    \/ KillInStoreHardState
    \/ KillInStoreSnapshot
    \/ WorkerRecv
    \/ WorkerBreak
    \/ WorkerDrain
    \/ WorkerDone
    \/ CloseSignal
    \/ CloseWait

Spec == Init /\ [][Next]_vars

\* The goroutine started by "go w.processIndexRange()" keeps being scheduled:
\* a step of it that stays possible is taken.
Fairness ==
    /\ WF_vars(WorkerRecv)
    /\ WF_vars(WorkerBreak)
    /\ WF_vars(WorkerDrain)
    /\ WF_vars(WorkerDone)

SpecFair == Init /\ [][Next]_vars /\ Fairness

\* The store's writes together with the device.
NextDurable ==
    \/ DiskStorageInit
    \/ AddEntries
    \/ Save
    \/ Sync
    \/ StoreHardStateCall
    \/ StoreSnapshotCall
    \/ WorkerRecv
    \/ WritebackEntryFile
    \/ WritebackMeta
    \/ PowerLoss

SpecDurable == Init /\ [][NextDurable]_vars

\* ------------------------------------------------------------------------
\* Properties.

\* The entries of h have consecutive, strictly increasing indices.
StrictlyIncreasing(h) ==
    \A k \in 1..(Len(h) - 1) : h[k + 1].Index = h[k].Index + 1

\* The returned entry re is the appended entry e, payload included.
SameEntry(re, e) ==
    /\ re.Index = e.Index /\ re.Term = e.Term /\ re.Type = e.Type
    /\ re.Data.len = Len(e.Data)
    /\ re.Data.bytes = e.Data

\* The entry appended last with index i, when there is one.
Stored(i) == \E k \in 1..Len(hist) : hist[k].Index = i
LastAt(i) ==
    hist[CHOOSE k \in 1..Len(hist) :
            /\ hist[k].Index = i
            /\ \A j \in (k + 1)..Len(hist) : hist[j].Index # i]

\* Reading the single index i through entryLog.allEntries gives back e.
ReadsBack(i, e) ==
    LET r == allEntries(el, disk, i, i + 1, Huge)
    IN  r.kind = "ok" /\ Len(r.val) = 1 /\ SameEntry(r.val[1], e)

\* C1: after appending entries with strictly increasing indices, reading
\* each index e.index through entries(e.index, e.index+1, unlimited) returns
\* exactly [e], with the same term, type and payload bytes.
C1_RoundTrip ==
    (proc = "up" /\ hist # <<>> /\ StrictlyIncreasing(hist))
        => \A k \in 1..Len(hist) : ReadsBack(hist[k].Index, hist[k])

RECURSIVE SumSize(_)
SumSize(es) == IF es = <<>> THEN 0 ELSE Size(Head(es)) + SumSize(Tail(es))

\* C2: for first_index <= lo < hi <= last_index+1 and every maxBytes,
\* entries(lo, hi, maxBytes) returns entries lo, lo+1, ... of [lo, hi): at
\* least one, and either the whole range or a prefix that exceeds maxBytes
\* by at most the size of its last entry.
C2_RangeBound ==
    (proc = "up" /\ hist # <<>> /\ StrictlyIncreasing(hist))
        => \A lo \in 0..MaxIndex, hi \in 1..(MaxIndex + 1), ms \in MaxSizes :
             (elFirstIndex(el) <= lo /\ lo < hi /\ hi <= elLastIndex(el) + 1)
                 => LET r == allEntries(el, disk, lo, hi, ms)
                    IN  /\ r.kind = "ok"
                        /\ Len(r.val) >= 1
                        /\ Len(r.val) <= hi - lo
                        /\ \A k \in 1..Len(r.val) : r.val[k].Index = lo + k - 1
                        /\ \/ Len(r.val) = hi - lo
                           \/ SumSize(SubSeq(r.val, 1, Len(r.val) - 1)) <= ms

\* C3: for every stored index i, term(i) returns the term of the entry
\* stored at index i.
C3_TermLookup ==
    (proc = "up" /\ StrictlyIncreasing(hist))
        => \A k \in 1..Len(hist) :
             Term(el, disk, hist[k].Index) = Ok(hist[k].Term)

\* The last AddEntries call appended the single entry e over an index that
\* was already persisted.
Overwrote(e) ==
    /\ ret.op = "AddEntries" /\ ret.arg = <<e>>
    /\ Len(hist) >= 2
    /\ e.Index <= hist[Len(hist) - 1].Index

\* C4: after append([e]) with e.index <= last_index, last_index is e.index,
\* nothing is readable above e.index, the entry at e.index is e and the
\* entries below e.index are the ones appended before.
C4_TruncateOnOverwrite ==
    \A e \in {hist[k] : k \in 1..Len(hist)} :
        (proc = "up" /\ Overwrote(e) /\ StrictlyIncreasing(SubSeq(hist, 1, Len(hist) - 1)))
            => /\ elLastIndex(el) = e.Index
               /\ LET r == allEntries(el, disk, e.Index + 1, e.Index + 2, Huge)
                  IN  r.kind = "err" \/ (r.kind = "ok" /\ r.val = <<>>)
               /\ ReadsBack(e.Index, e)
               /\ \A k \in 1..(Len(hist) - 1) :
                     hist[k].Index < e.Index => ReadsBack(hist[k].Index, hist[k])

\* C5: after exactly maxNumEntries + 1 entries were appended from index F
\* into a fresh log there are two files, with first indices F and
\* F + maxNumEntries, and every entry is readable through entries and term.
C5_RotationBoundary ==
    (proc = "up" /\ Len(hist) = maxNumEntries + 1 /\ StrictlyIncreasing(hist))
        => /\ Len(el.files) = 2
           /\ el.files[1].firstIndex = hist[1].Index
           /\ el.files[2].firstIndex = hist[1].Index + maxNumEntries
           /\ \A k \in 1..Len(hist) :
                 /\ ReadsBack(hist[k].Index, hist[k])
                 /\ Term(el, disk, hist[k].Index) = Ok(hist[k].Term)

\* What the store answers about its bounds and its meta page.
View == <<FirstIndex(cache, meta, el), LastIndex(el), metaHardState(meta),
          Snapshot(cache, meta)>>

\* C6: after a close, opening the same directory again succeeds and yields
\* the first index, last index, hard state and snapshot seen before the
\* close.
C6_IdempotentOpen ==
    (ret.op = "Init" /\ ret.arg = <<"down", TRUE>>)
        => (ret.res.kind = "ok" /\ proc = "up" /\ View = atClose)

\* The record a reader finds after the write of value v (encoded as enc)
\* over the record prev was started: prev, the whole of v, or nothing.
Untorn(rec, prev, enc) == Slice(rec) \in {prev, enc, <<>>}

\* C7: when the process is killed while a hard state or snapshot record is
\* written over an existing one, a later reader sees the complete previous
\* record, the complete new record or an absent record, never a mix.
C7_CrashAtomicMeta ==
    /\ (ret.op = "StoreHardState" /\ ~IsEmptyHardState(ret.arg[1]))
          => Untorn(meta.hs, ret.arg[2], MarshalHardState(ret.arg[1]))
    /\ (ret.op = "StoreSnapshot" /\ ~IsEmptySnap(ret.arg[1]))
          => Untorn(meta.snap, ret.arg[2], MarshalSnapshot(ret.arg[1]))

\* A file other than the tail whose last entry index is below i.
StaleFile(l, i) ==
    \E k \in 1..(Len(l.files) - 1) : l.files[k + 1].firstIndex - 1 < i

\* C9: create_snapshot(i, ...) succeeds, and once the worker has drained its
\* channel no file but the tail has a last index below i, while term(i)
\* still succeeds.
C9_DiscardSafety ==
    ret.op = "CreateSnapshot"
        => /\ ret.res.kind = "ok"
           /\ chan.buf = <<>>
                 => /\ ~StaleFile(el, ret.arg[1])
                    /\ Term(el, disk, ret.arg[1]).kind = "ok"

\* C10: entries(lo, hi, maxBytes) fails with Compacted when lo is below the
\* effective first index (snapshot index + 1 when a snapshot is stored, else
\* the first index of the earliest file) and with Unavailable when hi - 1 is
\* above the last index.
C10_EntriesErrors ==
    proc = "up"
        => \A lo \in 0..MaxIndex, hi \in 1..(MaxIndex + 2), ms \in MaxSizes :
             lo < hi
                 => LET r == Entries(el, lo, hi, ms)
                        first == FirstIndex(cache, meta, el)
                    IN  /\ lo < first => r = Err("ErrCompacted")
                        /\ (lo >= first /\ hi - 1 > LastIndex(el))
                              => r = Err("ErrUnavailable")

\* Every byte of the entry files has reached the device.
EntriesDurable == \A p \in DOMAIN disk : DurFile(p) = disk[p]

\* C8: the meta page on the device never holds the hard state or snapshot
\* that the store has just written unless the entries appended before it
\* are on the device too (entry file flushed before the meta page).
C8_DurabilityOrder ==
    /\ (ret.op = "StoreHardState" /\ ret.res.kind = "ok" /\ proc = "up"
           /\ ~IsEmptyHardState(ret.arg[1]) /\ durMeta.hs = meta.hs)
          => EntriesDurable
    /\ (ret.op = "StoreSnapshot" /\ ret.res.kind = "ok" /\ proc = "up"
           /\ ~IsEmptySnap(ret.arg[1]) /\ durMeta.snap = meta.snap)
          => EntriesDurable

\* C11: term(i) fails with Compacted for i below the snapshot index and
\* with Unavailable for i above the last index, and never faults.
C11_TermErrors ==
    proc = "up"
        => \A i \in 0..(MaxIndex + 1) :
             LET r == Term(el, disk, i)
                 sn == Snapshot(cache, meta)
             IN  /\ r.kind # "panic"
                 /\ (sn.kind = "ok" /\ i < sn.val.index) => r = Err("ErrCompacted")
                 /\ i > LastIndex(el) => r = Err("ErrUnavailable")

\* C12: create_snapshot(i, ...) with i at or below the stored snapshot's
\* index returns SnapshotOutOfDate and changes nothing; with a stored i
\* above it, the snapshot stored afterwards has index i and the term of
\* entry i.
C12_CreateSnapshot ==
    (ret.op = "CreateSnapshot" /\ ret.arg[2].kind = "ok")
        => IF ret.arg[1] <= ret.arg[2].val.index
           THEN /\ ret.res = Err("ErrSnapOutOfDate")
                /\ Snapshot(cache, meta) = ret.arg[2]
           ELSE /\ ret.res.kind = "ok"
                /\ LET sn == Snapshot(cache, meta)
                   IN  /\ sn.kind = "ok"
                       /\ sn.val.index = ret.arg[1]
                       /\ Stored(ret.arg[1]) => sn.val.term = LastAt(ret.arg[1]).Term

\* C13: a hard state write never lowers the stored term: after a write over
\* a record of term T the stored term is at least T.
C13_HardStateTermMonotone ==
    (ret.op = "StoreHardState" /\ ret.res.kind = "ok")
        => LET prev == UnmarshalHardState(ret.arg[2])
               cur == metaHardState(meta)
           IN  (prev.kind = "ok" /\ cur.kind = "ok")
                   => cur.val.term >= prev.val.term

\* C14: opening an empty directory with raft id R succeeds with first index
\* 0, last index 0, an empty snapshot, an empty hard state, one entry file,
\* the stored raft id R, and a dummy entry (index 0, term 0) in the log.
C14_FreshInit ==
    (ret.op = "Init" /\ ret.arg = <<"down", FALSE>>)
        => /\ ret.res.kind = "ok"
           /\ FirstIndex(cache, meta, el) = 0
           /\ LastIndex(el) = 0
           /\ Snapshot(cache, meta) = Ok(EmptySnapshot)
           /\ metaHardState(meta) = Ok(EmptyHardState)
           /\ Cardinality(DOMAIN disk) = 1
           /\ RaftId(meta) = RaftIdIn
           /\ NumEntries(el) = 1
           /\ Term(el, disk, 0) = Ok(0)

\* C15: once close is signalled the ranges in the channel leave it only
\* through the worker, the worker exits only with the channel closed and
\* empty, Done is signalled only by that exit, and under fairness the exit
\* follows every close signal.
C15_WorkerDrainOnClose ==
    /\ [](wpc = "done" => (chan.buf = <<>> /\ chan.closed))
    /\ [][closer = "signalled"
             => (chan'.buf = chan.buf \/ chan'.buf = Tail(chan.buf))]_vars
    /\ [][(closer # "done" /\ closer' = "done")
             => (wpc = "drain" /\ wpc' = "done")]_vars
    /\ [][wpc = "done" => wpc' \in {"done", "none"}]_vars
    /\ (closer = "signalled") ~> (closer = "done" /\ wpc = "done")

\* The worker has exited after a close signalled with one range pending.
C15_Witness ==
    /\ wpc = "done" /\ closer = "done"
    /\ ret.op = "Close" /\ ret.arg = <<1>>
    /\ chan.buf = <<>>

\* C16: save(h, es, snap) does not fault; when it succeeds the entries were
\* appended, then the hard state and then the snapshot were written.
C16_SaveOrder ==
    ret.op = "Save"
        => /\ ret.res.kind \in {"ok", "err"}
           /\ ret.res.kind = "ok"
                 => /\ SubSeq(hist, Len(hist) - Len(ret.arg[2]) + 1, Len(hist))
                          = ret.arg[2]
                    /\ ~IsEmptyHardState(ret.arg[1])
                          => metaHardState(meta) = Ok(ret.arg[1])
                    /\ ~IsEmptySnap(ret.arg[3])
                          => metaSnapshot(meta) = Ok(ret.arg[3])

\* C17: a save with a non-empty snapshot puts one discard range on the
\* worker's channel; a save with an empty snapshot that returns leaves the
\* channel as it was.
C17_SaveEnqueuesDiscard ==
    [][(ret'.op = "Save" /\ ret.op # "Save")
          => IF ~IsEmptySnap(ret'.arg[3])
             THEN proc' = "up" /\ Len(chan'.buf) = Len(chan.buf) + 1
             ELSE proc' = "up" => chan'.buf = chan.buf]_vars

\* C18: with maxNumEntries + 1 entries appended from index 1 (two files), a
\* snapshot of index maxNumEntries stored and the worker's channel drained,
\* the first file is removed, first_index() is maxNumEntries + 1, and
\* term(maxNumEntries) and entries(maxNumEntries - 1, ...) fail with
\* Compacted.
C18_SnapshotAtFileEnd ==
    (/\ proc = "up" /\ chan.buf = <<>>
     /\ Len(hist) = maxNumEntries + 1 /\ StrictlyIncreasing(hist)
     /\ hist[1].Index = 1
     /\ metaSnapshot(meta).kind = "ok"
     /\ metaSnapshot(meta).val.index = maxNumEntries)
        => /\ Path(1, TRUE) \notin DOMAIN disk
           /\ FirstIndex(cache, meta, el) = maxNumEntries + 1
           /\ Term(el, disk, maxNumEntries) = Err("ErrCompacted")
           /\ Entries(el, maxNumEntries - 1, maxNumEntries, Huge)
                 = Err("ErrCompacted")

\* An appended entry as a read returns it.
AsRead(e) ==
    [Index |-> e.Index, Term |-> e.Term, Type |-> e.Type,
     Data |-> [len |-> Len(e.Data), bytes |-> e.Data]]

\* The read of [lo, hi) starts in the loop of allEntries: a file begins at lo.
ViaLoop(l, lo) ==
    LET fileID == Search(Len(l.files), FilesFrom(l, lo))
    IN  fileID < Len(l.files) /\ l.files[fileID + 1].firstIndex = lo

SlotAt(f, i) ==
    entryFromBytes([k \in 1..entrySize |-> ByteAt(f, i * entrySize + k - 1)])

\* The occupied slots of f: those whose record has a non-zero index.
Occupied(f) == {i \in 0..(maxNumEntries - 1) : SlotAt(f, i).Index # 0}

\* C20: in every entry file the occupied slots form a prefix, and the
\* next-free slot of the log is the number of occupied slots of the tail.
C20_PrefixInvariant ==
    (proc = "up" /\ el.files # <<>>)
        => /\ \A p \in DOMAIN disk :
                \A i \in Occupied(disk[p]) : \A j \in 0..(i - 1) :
                    j \in Occupied(disk[p])
           /\ el.entryIndex = Cardinality(Occupied(disk[el.current.path]))

\* The index records of the occupied slots of f, in slot order.
RECURSIVE SlotsFrom(_, _)
SlotsFrom(f, i) ==
    IF i >= maxNumEntries THEN <<>>
    ELSE (IF SlotAt(f, i).Index # 0 THEN <<SlotAt(f, i)>> ELSE <<>>)
             \o SlotsFrom(f, i + 1)

\* The index records stored in the log, in file order and slot order.
RECURSIVE StoredFrom(_, _, _)
StoredFrom(l, d, k) ==
    IF k > Len(l.files) THEN <<>>
    ELSE SlotsFrom(d[l.files[k].path], 0) \o StoredFrom(l, d, k + 1)

StoredEntries(l, d) == StoredFrom(l, d, 1)

\* a < b for two uint64 values read from a file; two values that are both
\* above the decoded range are not compared.
Below(a, b) == a < b \/ (a = Huge /\ b = Huge)

\* C21: the indices of the stored entries, read in file order and slot
\* order, are strictly increasing in every state, also after an append of an
\* index at or below one persisted before.
C21_IndexMonotone ==
    proc = "up"
        => LET s == StoredEntries(el, disk)
           IN  \A k \in 1..(Len(s) - 1) : Below(s[k].Index, s[k + 1].Index)

\* The file and the slot that hold the j-th entry appended to a fresh log.
FileOf(j) == (j - 1) \div maxNumEntries + 1
SlotOf(j) == (j - 1) % maxNumEntries

\* The payload high-water mark of the k-th file of the log: the write offset
\* of the current buffer for the tail, the end of the written payload bytes
\* for a file before it.
HighWater(l, d, k) ==
    IF k = Len(l.files) THEN l.current.off
    ELSE entryFileOffset + Len(d[l.files[k].path].heap)

\* C22: every stored entry with a non-empty payload has a payload offset of
\* at least 1 MiB and at most the file size, and its payload ends at the
\* payload offset recorded for the next entry of the same file, or at the
\* payload high-water mark when it is the last of its file; whatever the mix
\* of empty and non-empty payloads.
C22_PayloadLayout ==
    (proc = "up" /\ StrictlyIncreasing(hist))
        => \A j \in 1..Len(hist) :
             hist[j].Data # <<>>
                 => LET f == disk[el.files[FileOf(j)].path]
                        rec == SlotAt(f, SlotOf(j))
                        isLast == j = Len(hist) \/ SlotOf(j) = maxNumEntries - 1
                    IN  /\ rec.DataOffset >= entryFileOffset
                        /\ rec.DataOffset <= entryFileSize
                        /\ rec.DataOffset + Len(hist[j].Data)
                              = IF isLast THEN HighWater(el, disk, FileOf(j))
                                ELSE SlotAt(f, SlotOf(j) + 1).DataOffset

\* C23: an operation that mutates the meta page (raft id, hard state,
\* snapshot) has the page on the device when it returns success, so that a
\* power loss after the return keeps the written value.
C23_MetaFlushedOnReturn ==
    /\ (ret.op = "Init" /\ ret.res.kind = "ok")
          => /\ proc = "up" => durMeta.raftId = meta.raftId
             /\ fault = "power loss" => RaftId(meta) = RaftIdIn
    /\ (ret.op = "StoreHardState" /\ ret.res.kind = "ok"
           /\ ~IsEmptyHardState(ret.arg[1]))
          => /\ proc = "up" => durMeta.hs = meta.hs
             /\ fault = "power loss" => metaHardState(meta) = Ok(ret.arg[1])
    /\ (ret.op = "StoreSnapshot" /\ ret.res.kind = "ok"
           /\ ~IsEmptySnap(ret.arg[1]))
          => /\ proc = "up" => durMeta.snap = meta.snap
             /\ fault = "power loss" => metaSnapshot(meta) = Ok(ret.arg[1])

\* The first-index of the k-th file of the log: the index stored in its
\* slot 0, zero while the file is empty.
FileFirstIndex(l, d, k) == SlotAt(d[l.files[k].path], 0).Index

\* The first index the store has to answer: the index after the snapshot of
\* the meta page when that is not empty, else the first-index of the
\* earliest file, 0 without a file.
OverlayFirstIndex(m, l, d) ==
    LET sn == metaSnapshot(m)
    IN  IF sn.kind = "ok" /\ ~IsEmptySnap(sn.val) THEN sn.val.index + 1
        ELSE IF Len(l.files) = 0 THEN 0
        ELSE FileFirstIndex(l, d, 1)

\* C24: in every state first_index() is the stored snapshot's index + 1 when
\* a non-empty snapshot is stored and the first-index of the earliest entry
\* file otherwise (0 without a file); storing a snapshot of a higher index
\* over a stored one never lowers it.
C24_FirstIndexOverlay ==
    /\ [](proc = "up"
            => FirstIndex(cache, meta, el) = OverlayFirstIndex(meta, el, disk))
    /\ [][(/\ proc = "up" /\ proc' = "up"
           /\ ret'.op = "StoreSnapshot"
           /\ metaSnapshot(meta).kind = "ok"
           /\ ret'.arg[1].index > metaSnapshot(meta).val.index)
             => FirstIndex(cache', meta', el') >= FirstIndex(cache, meta, el)]_vars

\* C25: num_entries() is maxNumEntries times the number of files before the
\* tail plus the tail's next-free slot, which stays within 0..maxNumEntries,
\* and it is the number of occupied slots of all files: every file before
\* the tail is full.
C25_NumEntries ==
    (proc = "up" /\ el.files # <<>>)
        => /\ NumEntries(el) = maxNumEntries * (Len(el.files) - 1) + el.entryIndex
           /\ el.entryIndex \in 0..maxNumEntries
           /\ NumEntries(el) = Len(StoredEntries(el, disk))
           /\ \A k \in 1..(Len(el.files) - 1) :
                 Cardinality(Occupied(disk[el.files[k].path])) = maxNumEntries

\* C26: writing the empty hard state or the empty snapshot returns success
\* and leaves the meta page and the snapshot cache as they were, so that a
\* save with an empty hard state or snapshot never clears a stored one.
C26_EmptyWritesNoOp ==
    /\ [](/\ StoreHardState(meta, EmptyHardState) = meta
          /\ StoreSnapshot(meta, EmptySnapshot) = meta
          /\ setSnapshot(meta, cache, EmptySnapshot)
                = [meta |-> meta, cache |-> cache])
    /\ [][(ret'.op = "StoreHardState" /\ IsEmptyHardState(ret'.arg[1])
              /\ nmeta' = nmeta + 1)
             => (ret'.res.kind = "ok" /\ meta' = meta /\ cache' = cache)]_vars
    /\ [][(ret'.op = "StoreSnapshot" /\ IsEmptySnap(ret'.arg[1])
              /\ nmeta' = nmeta + 1)
             => (ret'.res.kind = "ok" /\ meta' = meta /\ cache' = cache)]_vars
    /\ [][(ret'.op = "Save" /\ ret.op # "Save")
             => /\ IsEmptyHardState(ret'.arg[1]) => meta'.hs = meta.hs
                /\ IsEmptySnap(ret'.arg[3])
                      => /\ meta'.snap = meta.snap
                         /\ proc' = "up" => cache' = cache]_vars

\* The empty hard state was written over a stored hard state, which is
\* still the one the meta page holds.
C26_Witness ==
    /\ proc = "up"
    /\ ret.op = "StoreHardState" /\ IsEmptyHardState(ret.arg[1])
    /\ ret.arg[2] # <<>>
    /\ Slice(meta.hs) = ret.arg[2]
    /\ metaHardState(meta).kind = "ok"
    /\ ~IsEmptyHardState(metaHardState(meta).val)

\* C27: in every state the last element of the files list is the file being
\* written, its view is a mapping of the bytes behind the current write
\* buffer, and no element of the list has an unset mapping, so that a read
\* of a tail slot through the view does not fault.
C27_TailView ==
    (proc = "up" /\ el.files # <<>>)
        => /\ lastFile(el).path = el.current.path
           /\ lastFile(el).mmap = <<el.current.path>>
           /\ \A k \in 1..Len(el.files) : el.files[k].mmap # <<>>
           /\ \A n \in 0..(maxNumEntries - 1) :
                 elGetEntry(el, disk, n).kind = "ok"

C29_InitRange ==
    [][(ret'.op = "Init" /\ proc # "up" /\ proc' = "up")
          => \A k \in 1..Len(chan'.buf) :
               LET r == chan'.buf[k]
               IN  /\ r.from <= r.until
                   /\ r.until <= LastIndex(el')
                   /\ r.until < Huge
                   /\ r.until + 1 = FirstIndex(cache', meta', el')]_vars

\* C30: for every slot position n of the tail, append writes the index
\* record at the byte range [32n, 32n + 32) that getEntry and firstEmpty
\* read: the record appended last is the one its slot reads back, and an
\* append into the same file leaves every earlier slot as it was.
C30_SlotAddressing ==
    [][(ret'.op = "AddEntries" /\ hist' # hist /\ proc' = "up")
          => LET p == el'.current.path
                 n == el'.entryIndex - 1
                 e == ret'.arg[Len(ret'.arg)]
                 rec == SlotAt(disk'[p], n)
             IN  /\ AddEntriesOffset(n) = getEntryOffset(n)
                 /\ rec.Index = e.Index /\ rec.Term = e.Term
                 /\ rec.Type = e.Type
                 /\ el'.current.path = el.current.path
                       => \A i \in 0..(el.entryIndex - 1) :
                             SlotAt(disk'[p], i) = SlotAt(disk[p], i)]_vars

\* C31: the worker closes the channel once, and only after it has seen the
\* close signal; every send goes to an open channel before close is
\* signalled; the channel never fills, so no sender blocks, and under
\* fairness every range sent is taken out of the channel.
C31_NoSendOnClosed ==
    /\ [][(~chan.closed /\ chan'.closed)
             => (closer = "signalled" /\ wpc = "loop" /\ wpc' = "drain")]_vars
    /\ [](chan.closed => wpc \in {"drain", "done"})
    /\ [][Len(chan'.buf) > Len(chan.buf)
             => (/\ ~chan.closed /\ ~chan'.closed
                 /\ closer' = "open" /\ wpc' = "loop")]_vars
    /\ [](Len(chan.buf) < chanCap)
    /\ (chan.buf # <<>>) ~> (chan.buf = <<>>)

\* The worker has closed the channel after the close signal while the range
\* that Init sent was still in it.
C31_Witness ==
    /\ proc = "up" /\ closer = "signalled"
    /\ chan.closed /\ wpc = "drain"
    /\ Len(chan.buf) = 1

====
